---- MODULE Spec2Model ----
(***************************************************************************)
(* The transaction workflows of the colmena API (TransactionService):      *)
(* registerRecover, registerTransferRequest, registerTransferAccept,       *)
(* registerTransferReject, registerTransferCancel and registerTransport,   *)
(* run as concurrent invocations against the shared stores (containers,    *)
(* transactions, transaction details, stock counters, permission grants).  *)
(*                                                                         *)
(* One step of an invocation is one awaited store operation together with  *)
(* the synchronous code around it.  An object held by an invocation        *)
(* (container.set, transaction.set) is changed in memory only; the store   *)
(* sees it when a save that reaches the object is issued.  A save of a     *)
(* TransactionDetail first saves the dirty objects it points to (its       *)
(* container, its transaction and the transaction's relatedTo).            *)
(* Promise.all rejects on the first rejection and leaves the other         *)
(* promises running; a promise that is not returned runs on its own.       *)
(***************************************************************************)
EXTENDS Integers, Sequences, FiniteSets, TLC

\* ---------------------------------------------------------------- bounds
MaxLines == 2       \* lines of one registerRecover input
\* one caller, starting from the empty stores (Spec)
MaxTx == 3          \* Transaction records ever created
MaxContainers == 2  \* Container records ever created
MaxFaults == 2      \* collaborator calls that fail
\* one caller, starting after a first recover (SpecSeq)
SeqMaxTx == 4
SeqMaxContainers == 2
SeqMaxFaults == 1
\* concurrent callers, starting after a first recover (SpecConcurrent)
MaxProcs == 2       \* invocations in progress at the same time
ConcMaxTx == 3
ConcMaxContainers == 2
ConcMaxFaults == 1
\* ... and of the concurrent callers that find a transfer request pending
ReqMaxTx == 4
ReqMaxContainers == 2
ReqMaxFaults == 1

\* MAX_CONTAINERS_QUANTITY_PER_REQUEST of ../constants
MAX_CONTAINERS_QUANTITY_PER_REQUEST == 1

Users == {"A", "B"}
NoUser == "nobody"
WasteTypes == {"plastic", "glass"}

\* CONTAINER_STATUS of ../constants
RECOVERED == "RECOVERED"
TRANSFER_PENDING == "TRANSFER_PENDING"
TRANSFERRED == "TRANSFERRED"
IN_TRANSIT == "IN_TRANSIT"

\* TRANSACTIONS_TYPES of ../constants; UNDEFINED is a type that was never set
RECOVER == "RECOVER"
TRANSFER_REQUEST == "TRANSFER_REQUEST"
TRANSFER_ACCEPT == "TRANSFER_ACCEPT"
TRANSFER_REJECT == "TRANSFER_REJECT"
TRANSFER_CANCEL == "TRANSFER_CANCEL"
TRANSPORT == "TRANSPORT"
UNDEFINED == "undefined"

VARIABLES
  containers,  \* Container Registry: sequence of records, the id is the index
  txs,         \* Ledger Store: sequence of Transaction records, id = number
  details,     \* TransactionDetail rows: pairs <<transaction, container>>
  stock,       \* Stock Ledger: stock[user][wasteType]
  grants,      \* Permission Grants: <<class, id, user>>
  invs,        \* the invocations in progress (or last finished), per slot
  bg,          \* promises nobody awaits: started, not yet settled
  faultsLeft,  \* collaborator failures still to come in this run
  room         \* this run: the records the stores take (tx, containers) and
               \* whether the callers await each call before the next (awaits)

vars == <<containers, txs, details, stock, grants, invs, bg, faultsLeft, room>>

Procs == 1 .. MaxProcs

\* ---------------------------------------------------------------- helpers
RECURSIVE SumQty(_)
SumQty(lines) ==
  IF lines = <<>> THEN 0 ELSE Head(lines).qty + SumQty(Tail(lines))

Line == [typeId : WasteTypes, qty : 1 .. (MAX_CONTAINERS_QUANTITY_PER_REQUEST + 1)]

RecoverInputs == UNION {[1 .. n -> Line] : n \in 1 .. MaxLines}

NoStatus == [c \in {} |-> RECOVERED]
NoTask == [c \in {} |-> "ok"]
ZeroRow == [t \in WasteTypes |-> 0]

\* A slot with no invocation, and the memory of a fresh invocation.
Idle ==
  [op |-> "idle", user |-> NoUser, to |-> NoUser, cin |-> {}, lines |-> <<>>,
   rid |-> 0, pc |-> "done", res |-> "none", err |-> "",
   tx |-> 0, cs |-> {}, mem |-> NoStatus, dirty |-> {},
   reqFrom |-> NoUser, reqTo |-> NoUser, reqExp |-> FALSE,
   reqDirty |-> FALSE, relDirty |-> FALSE,
   hasSnap |-> FALSE, snap |-> ZeroRow,
   recoveredIds |-> {}, transferredIds |-> {},
   task |-> NoTask, parD |-> "no", parR |-> "no",
   \* history of the invocation, read by the properties only
   created |-> FALSE, wrote |-> {}, fwd |-> {}, issued |-> {},
   faulted |-> FALSE, compFailed |-> FALSE, late |-> FALSE,
   pre |-> NoStatus, stock0 |-> [u \in Users |-> ZeroRow], live |-> FALSE]

Running(v) ==
  \/ v.pc # "done"
  \/ \E k \in DOMAIN v.task : v.task[k] \notin {"ok", "fail"}
  \/ v.parD = "run"
  \/ v.parR = "run"

Active(v) == v.pc # "done"

\* No invocation in progress and no promise pending.
Quiescent == (\A i \in Procs : invs[i] = Idle) /\ bg = {}

\* The slot a new invocation takes: the lowest one whose invocation is over.
FreeSlot(i) ==
  /\ invs[i] = Idle
  /\ \A j \in Procs : j < i => invs[j] # Idle

\* Room for the records the invocations in progress may still create.
RoomForTx ==
  Len(txs) + Cardinality({j \in Procs : Active(invs[j]) /\ ~invs[j].created}) < room.tx

Reserved(v) ==
  IF v.op = "registerRecover" /\ v.pc \in {"fetch", "create", "containers"}
  THEN SumQty(v.lines) ELSE 0

RECURSIVE ReservedUpTo(_)
ReservedUpTo(n) == IF n = 0 THEN 0 ELSE Reserved(invs[n]) + ReservedUpTo(n - 1)

RoomForContainers(lines) ==
  Len(containers) + ReservedUpTo(MaxProcs) + SumQty(lines) <= room.containers

Finish(v, res, err) == [v EXCEPT !.pc = "done", !.res = res, !.err = err]

\* A raise out of the catch block itself: the compensation step failed.
FinishRaw(v) ==
  [v EXCEPT !.pc = "done", !.res = "raised", !.compFailed = TRUE, !.faulted = TRUE]

Fault == faultsLeft > 0 /\ faultsLeft' = faultsLeft - 1
NoFault == UNCHANGED faultsLeft

\* An invocation that is over and has nothing left running.
Over(v) == v # Idle /\ ~Running(v)

\* The caller takes a result as soon as the invocation is over: nothing else
\* happens while one waits to be taken.
NoneOver == \A j \in Procs : ~Over(invs[j])

Put(i, v) == NoneOver /\ invs' = [invs EXCEPT ![i] = v]

Tomb ==
  [type |-> "destroyed", from |-> NoUser, to |-> NoUser, expiredAt |-> FALSE,
   relatedTo |-> 0, exists |-> FALSE, consumed |-> FALSE, g0 |-> {}]

Exists(t) == t \in 1 .. Len(txs) /\ txs[t].exists

\* ------------------------------------------------------------ pure rules
NoDuplicateTypes(lines) ==
  \A a, b \in 1 .. Len(lines) : a # b => lines[a].typeId # lines[b].typeId

WithinMaxQuantity(lines) ==
  \A a \in 1 .. Len(lines) : lines[a].qty <= MAX_CONTAINERS_QUANTITY_PER_REQUEST

validateRegisterInput(lines) == NoDuplicateTypes(lines) /\ WithinMaxQuantity(lines)

AnyRequester(t, user) ==
  IF t.type # TRANSFER_REQUEST THEN "not a transfer request"
  ELSE IF t.expiredAt THEN "expired"
  ELSE ""

\* The error validateTransferAcceptRejectRequest throws, "" when it passes.
validateTransferAcceptRejectRequest(t, user) ==
  IF t.type # TRANSFER_REQUEST THEN "not a transfer request"
  ELSE IF t.expiredAt THEN "expired"
  ELSE IF t.to # user THEN "not allowed"
  ELSE ""

\* The same checks inside registerTransferCancel, against the request's from.
validateTransferCancelRequest(t, user) ==
  IF t.type # TRANSFER_REQUEST THEN "not a transfer request"
  ELSE IF t.expiredAt THEN "expired"
  ELSE IF t.from # user THEN "not allowed"
  ELSE ""

AnyStatus(st) == TRUE

AllRecovered(st) == \A c \in DOMAIN st : st[c] = RECOVERED

AllTransportable(st) == \A c \in DOMAIN st : st[c] \in {RECOVERED, TRANSFERRED}


\* ------------------------------------------------------- store operations
\* Container saves: W maps the containers written to the status written.
Saved(W) ==
  [c \in DOMAIN containers |->
     IF c \in DOMAIN W THEN [containers[c] EXCEPT !.status = W[c]] ELSE containers[c]]

Changed(W) == {c \in DOMAIN W : containers[c].status # W[c]}

Changes(W) == {<<c, containers[c].status, W[c]>> : c \in Changed(W)}

Restrict(W, S) == [c \in S |-> W[c]]

\* createTransaction: the record transaction.save stores, number = next sequence
createTransaction(attributes) ==
  [type |-> attributes.type, from |-> attributes.from, to |-> attributes.to,
   expiredAt |-> FALSE, relatedTo |-> 0, exists |-> TRUE,
   \* history, read by the properties only: consumed by a successful
   \* accept/reject/cancel; the grants when the record was created
   consumed |-> FALSE,
   g0 |-> IF attributes.type = TRANSFER_REQUEST THEN grants ELSE {}]

RecoverAttributes(v) == [type |-> RECOVER, from |-> NoUser, to |-> v.user]

SwappedParties(v) == [type |-> TRANSFER_REQUEST, from |-> v.to, to |-> v.user]

TransferRequestAttributes(v) == [type |-> TRANSFER_REQUEST, from |-> v.user, to |-> v.to]

TransferAcceptAttributes(v) == [type |-> TRANSFER_ACCEPT, from |-> v.reqFrom, to |-> v.reqTo]

TransferRejectAttributes(v) == [type |-> TRANSFER_REJECT, from |-> v.reqFrom, to |-> v.reqTo]

\* registerTransferCancel passes (from, to, type, null, token): `attributes` is
\* the from user object, which has no type, from or to property.
TransferCancelAttributes(v) == [type |-> UNDEFINED, from |-> NoUser, to |-> NoUser]

TransportAttributes(v) == [type |-> TRANSPORT, from |-> v.user, to |-> NoUser]

TxAttributes(v) ==
  CASE v.op = "registerRecover" -> RecoverAttributes(v)
    [] v.op = "registerTransferRequest" -> TransferRequestAttributes(v)
    [] v.op = "registerTransferAccept" -> TransferAcceptAttributes(v)
    [] v.op = "registerTransferReject" -> TransferRejectAttributes(v)
    [] v.op = "registerTransferCancel" -> TransferCancelAttributes(v)
    [] OTHER -> TransportAttributes(v)

TerminalOps == {"registerTransferAccept", "registerTransferReject", "registerTransferCancel"}

KeepTransaction(t) == txs

\* destroyTransaction: transaction.destroy
destroyTransaction(t) == [txs EXCEPT ![t] = Tomb]

\* ContainerService.findContainersByTransaction: the containers of its details
findContainersByTransaction(t) == {c \in DOMAIN containers : <<t, c>> \in details}

\* StockService.incrementStock
incrementStock(st, t, u, qty) == [st EXCEPT ![u][t] = @ + qty]

\* StockService.moveStock: decrement the source, increment the destination
moveStock(st, t, from, to, qty) ==
  [u \in Users |->
     [x \in WasteTypes |->
        IF x # t THEN st[u][x]
        ELSE st[u][x] - (IF u = from THEN qty ELSE 0) + (IF u = to THEN qty ELSE 0)]]

\* SecurityService.grantReadAndWritePermissionsToUser / revoke...
grantReadAndWritePermissionsToUser(class, id, u) == grants \cup {<<class, id, u>>}

revokeReadAndWritePermissionsToUser(class, id, u) == grants \ {<<class, id, u>>}

\* ---------------------------------------------------------- control flow
\* Where the catch block of a workflow starts once a transaction exists.
CatchPc(v) == IF v.op = "registerTransferAccept" THEN "c_par" ELSE "c_destroy"

Catch(v, cause) ==
  [v EXCEPT !.pc = CatchPc(v), !.err = cause,
            !.parD = IF v.op = "registerTransferAccept" THEN "run" ELSE @,
            !.parR = IF v.op = "registerTransferAccept" THEN "run" ELSE @]

\* After the per-container promises of Promise.all have all resolved.
AfterTasks(v) ==
  IF v.op \in {"registerTransferRequest", "registerTransport"}
  THEN [v EXCEPT !.pc = "notify"]
  ELSE Finish(v, "ok", "")

\* Promise.all: rejects with the first rejection, resolves when all resolved.
\* A promise still running when it rejects keeps running.
TaskJoin(v) ==
  IF v.pc # "tasks" THEN v
  ELSE IF \E k \in DOMAIN v.task : v.task[k] = "fail" THEN Catch(v, "failure")
  ELSE IF \A k \in DOMAIN v.task : v.task[k] = "ok" THEN AfterTasks(v)
  ELSE v

EnterTasks(v, t) == TaskJoin([v EXCEPT !.pc = "tasks", !.task = t])

\* A successful accept, reject or cancel consumes its request (history).
Consume(ledger, v) ==
  IF v.res = "ok" /\ v.op \in TerminalOps /\ v.rid \in 1 .. Len(ledger) /\ ledger[v.rid].exists
  THEN [ledger EXCEPT ![v.rid].consumed = TRUE]
  ELSE ledger

\* What follows transaction = await createTransaction(...) in each workflow.
AfterCreate(v, t) ==
  LET w == [v EXCEPT !.tx = t, !.created = TRUE] IN
  CASE v.op = "registerRecover" -> [w EXCEPT !.pc = "containers"]
    [] v.op = "registerTransferRequest" -> [w EXCEPT !.pc = "grantTx"]
    [] v.op \in TerminalOps ->
         \* transaction.set('relatedTo', ...); request.set('expiredAt', new Date())
         [w EXCEPT !.pc = "loadReq", !.relDirty = TRUE, !.reqDirty = TRUE, !.reqExp = TRUE]
    [] OTHER ->
         \* registerTransport: container.set('status', IN_TRANSIT) on each, then
         \* createTransactionDetail on each
         EnterTasks([w EXCEPT !.mem = [c \in w.cs |-> IN_TRANSIT], !.dirty = w.cs],
                    [c \in w.cs |-> "detail"])


F(v) == [v EXCEPT !.faulted = TRUE]

\* The stores an action leaves alone: all but those named in X.
StoresBut(X) ==
  /\ IF "containers" \in X THEN TRUE ELSE UNCHANGED containers
  /\ IF "txs" \in X THEN TRUE ELSE UNCHANGED txs
  /\ IF "details" \in X THEN TRUE ELSE UNCHANGED details
  /\ IF "stock" \in X THEN TRUE ELSE UNCHANGED stock
  /\ IF "grants" \in X THEN TRUE ELSE UNCHANGED grants
  /\ IF "bg" \in X THEN TRUE ELSE UNCHANGED bg
  /\ UNCHANGED room

\* ------------------------------------------------- entry points (starts)
\* A caller that awaits each call starts the next one when the last one is
\* over and the promises it left behind have settled.
MayStart == room.awaits => Quiescent

Start(i, v) ==
  /\ FreeSlot(i)
  /\ RoomForTx
  /\ Put(i, v)
  /\ UNCHANGED <<containers, txs, details, stock, grants, bg, faultsLeft, room>>

registerRecover(containersInput, user) ==
  \E i \in Procs :
    LET v == [Idle EXCEPT !.op = "registerRecover", !.user = user,
                          !.lines = containersInput, !.stock0 = stock]
    IN IF validateRegisterInput(containersInput)
       THEN RoomForContainers(containersInput) /\ Start(i, [v EXCEPT !.pc = "fetch"])
       ELSE Start(i, Finish(v, "raised", "validation"))

registerTransferRequest(containersInput, to, user) ==
  \E i \in Procs :
    LET v == [Idle EXCEPT !.op = "registerTransferRequest", !.user = user,
                          !.to = to, !.cin = containersInput,
                          !.pre = [c \in containersInput |-> containers[c].status]]
    IN IF to = NoUser
       THEN Start(i, Finish(v, "raised", "validation"))
       ELSE Start(i, [v EXCEPT !.pc = "load"])

Terminal(op, transactionId, user) ==
  \E i \in Procs :
    Start(i, [Idle EXCEPT !.op = op, !.user = user, !.rid = transactionId,
                          !.pc = "find", !.late = txs[transactionId].consumed,
                          !.stock0 = stock])

registerTransferAccept(transactionId, user) ==
  Terminal("registerTransferAccept", transactionId, user)

registerTransferReject(transactionId, user) ==
  Terminal("registerTransferReject", transactionId, user)

registerTransferCancel(transactionId, user) ==
  Terminal("registerTransferCancel", transactionId, user)

registerTransport(containersInput, to, user) ==
  \E i \in Procs :
    LET v == [Idle EXCEPT !.op = "registerTransport", !.user = user,
                          !.to = to, !.cin = containersInput,
                          !.pre = [c \in containersInput |-> containers[c].status]]
    IN IF to = NoUser
       THEN Start(i, Finish(v, "raised", "validation"))
       ELSE Start(i, [v EXCEPT !.pc = "load"])

\* ------------------------------------------------------ registerRecover
\* [wasteTypes, currentStock] = await Promise.all([getWasteTypesFromIds, getUserStock])
recover_getUserStock(i) ==
  LET v == invs[i] IN
  /\ v.op = "registerRecover" /\ v.pc = "fetch"
  /\ \/ NoFault /\ Put(i, [v EXCEPT !.pc = "create", !.hasSnap = TRUE, !.snap = stock[v.user]])
     \/ Fault /\ Put(i, Finish(F(v), "raised", "lookup"))
  /\ StoresBut({})

\* transaction = await createTransaction(...), in every workflow
createTransaction_save(i) ==
  LET v == invs[i] IN
  /\ v.pc = "create"
  /\ \/ /\ NoFault
        /\ txs' = Append(txs, createTransaction(TxAttributes(v)))
        /\ Put(i, AfterCreate(v, Len(txs) + 1))
     \/ /\ Fault
        /\ UNCHANGED txs
        \* transaction stays undefined; registerRecover's catch still runs
        \* rollbackUserStockTo(currentStock)
        /\ Put(i, IF v.op = "registerRecover"
                  THEN [F(v) EXCEPT !.pc = "c_stock", !.err = "failure"]
                  ELSE Finish(F(v), "raised", "failure"))
  /\ StoresBut({"txs"})

RECURSIVE Copies(_, _)
Copies(c, n) == IF n = 0 THEN <<>> ELSE <<c>> \o Copies(c, n - 1)

\* ContainerService.createContainersOfType(wasteType, qty, RECOVERED, number, user)
createContainersOfType(wasteType, qty, status, number, user) ==
  Copies([status |-> status, type |-> wasteType, batchNumber |-> number,
          createdBy |-> user], qty)

RECURSIVE RecoverContainers(_, _, _)
RecoverContainers(lines, number, user) ==
  IF lines = <<>> THEN <<>>
  ELSE createContainersOfType(Head(lines).typeId, Head(lines).qty, RECOVERED, number, user)
         \o RecoverContainers(Tail(lines), number, user)

recover_createContainers(i) ==
  LET v == invs[i] IN
  /\ v.op = "registerRecover" /\ v.pc = "containers"
  /\ \/ /\ NoFault
        /\ containers' = containers \o RecoverContainers(v.lines, v.tx, v.user)
        /\ Put(i, [v EXCEPT !.pc = "details",
                            !.cs = (Len(containers) + 1) .. (Len(containers) + SumQty(v.lines))])
     \/ /\ Fault
        /\ \E k \in 0 .. (Len(v.lines) - 1) :
             containers' = containers \o RecoverContainers(SubSeq(v.lines, 1, k), v.tx, v.user)
        /\ Put(i, Catch(F(v), "failure"))
  /\ StoresBut({"containers"})

recover_createDetails(i) ==
  LET v == invs[i] IN
  /\ v.op = "registerRecover" /\ v.pc = "details"
  /\ \/ /\ NoFault
        /\ details' = details \cup {<<v.tx, c>> : c \in v.cs}
        /\ Put(i, EnterTasks(v, [l \in 1 .. Len(v.lines) |-> "incr"]))
     \/ /\ Fault
        /\ \E D \in (SUBSET v.cs) \ {v.cs} : details' = details \cup {<<v.tx, c>> : c \in D}
        /\ Put(i, Catch(F(v), "failure"))
  /\ StoresBut({"details"})

OneMore(line) == line.qty + 1

\* The quantity registerRecover adds to the stock for one input line.
RecoverIncrement(line) == line.qty

\* StockService.incrementStock(wasteType, user, input.qty), one promise per line
recover_incrementStock(i, l) ==
  LET v == invs[i] IN
  /\ l \in DOMAIN v.task /\ v.task[l] = "incr"
  /\ \/ /\ NoFault
        /\ stock' = incrementStock(stock, v.lines[l].typeId, v.user, RecoverIncrement(v.lines[l]))
        /\ Put(i, TaskJoin([v EXCEPT !.task[l] = "ok"]))
     \/ /\ Fault
        /\ UNCHANGED stock
        /\ Put(i, TaskJoin([F(v) EXCEPT !.task[l] = "fail"]))
  /\ StoresBut({"stock"})

\* rollbackUserStockTo(currentStock): saves every fetched counter's old amount
rollbackUserStockTo(st, user, currentStock, types) ==
  [st EXCEPT ![user] = [t \in WasteTypes |-> IF t \in types THEN currentStock[t] ELSE @[t]]]

recover_rollbackUserStock(i) ==
  LET v == invs[i] IN
  /\ v.pc = "c_stock"
  /\ \/ /\ NoFault
        /\ stock' = rollbackUserStockTo(stock, v.user, v.snap, WasteTypes)
        /\ Put(i, Finish(v, "raised", v.err))
     \/ /\ Fault
        /\ \E S \in (SUBSET WasteTypes) \ {WasteTypes} :
             stock' = rollbackUserStockTo(stock, v.user, v.snap, S)
        /\ Put(i, FinishRaw(v))
  /\ StoresBut({"stock"})


\* ---------------------------------------------- per-container promises
\* createTransactionDetail(transaction, container, user): transactionDetail.save
\* saves the dirty objects the detail points to, then the detail.
CascadeTargetsExist(v) ==
  /\ v.relDirty => Exists(v.tx)
  /\ v.reqDirty => Exists(v.rid)

CascadeTxs(v) ==
  [t \in DOMAIN txs |->
     IF ~txs[t].exists THEN txs[t]
     ELSE [txs[t] EXCEPT
             !.relatedTo = IF v.relDirty /\ t = v.tx THEN v.rid ELSE @,
             !.expiredAt = IF v.reqDirty /\ t = v.rid THEN v.reqExp ELSE @]]

CascadeStatus(v, c) == IF c \in v.dirty THEN [x \in {c} |-> v.mem[c]] ELSE NoStatus

AfterCascade(v, c) ==
  [v EXCEPT !.dirty = @ \ {c}, !.relDirty = FALSE, !.reqDirty = FALSE,
            !.wrote = @ \cup Changed(CascadeStatus(v, c)),
            !.fwd = @ \cup Changes(CascadeStatus(v, c))]

task_createTransactionDetail(i, c) ==
  LET v == invs[i] IN
  /\ c \in DOMAIN v.task /\ v.task[c] = "detail"
  /\ \/ /\ CascadeTargetsExist(v) /\ NoFault
        /\ containers' = Saved(CascadeStatus(v, c))
        /\ details' = details \cup {<<v.tx, c>>}
        /\ LET v2 == TaskJoin([AfterCascade(v, c) EXCEPT !.task[c] = "ok"])
           IN Put(i, v2) /\ txs' = Consume(CascadeTxs(v), v2)
     \/ \* the referenced objects were saved, the detail's own save failed
        /\ CascadeTargetsExist(v) /\ Fault
        /\ containers' = Saved(CascadeStatus(v, c))
        /\ txs' = CascadeTxs(v)
        /\ UNCHANGED details
        /\ Put(i, TaskJoin([F(AfterCascade(v, c)) EXCEPT !.task[c] = "fail"]))
     \/ \* nothing was saved
        /\ IF CascadeTargetsExist(v) THEN Fault ELSE NoFault
        /\ UNCHANGED <<containers, txs, details>>
        /\ Put(i, TaskJoin([F(v) EXCEPT !.task[c] = "fail"]))
  /\ StoresBut({"containers", "txs", "details"})

\* SecurityService.grantReadAndWritePermissionsToUser('Container', id, recipient)
\*   .then(() => createTransactionDetail(...))        (registerTransferRequest)
task_grant(i, c) ==
  LET v == invs[i] IN
  /\ c \in DOMAIN v.task /\ v.task[c] = "grant"
  /\ \/ /\ NoFault
        /\ grants' = grantReadAndWritePermissionsToUser("Container", c, v.to)
        /\ Put(i, [v EXCEPT !.task[c] = "detail", !.issued = @ \cup {<<"Container", c, v.to>>}])
     \/ /\ Fault
        /\ UNCHANGED grants
        /\ Put(i, TaskJoin([F(v) EXCEPT !.task[c] = "fail"]))
  /\ StoresBut({"grants"})

\* SecurityService.revokeReadAndWritePermissionsToUser('Container', id, request.to)
\*   .then(() => createTransactionDetail(...))        (registerTransferCancel)
task_revoke(i, c) ==
  LET v == invs[i] IN
  /\ c \in DOMAIN v.task /\ v.task[c] = "revoke"
  /\ \/ /\ NoFault
        /\ grants' = revokeReadAndWritePermissionsToUser("Container", c, v.reqTo)
        /\ Put(i, [v EXCEPT !.task[c] = "detail"])
     \/ /\ Fault
        /\ UNCHANGED grants
        /\ Put(i, TaskJoin([F(v) EXCEPT !.task[c] = "fail"]))
  /\ StoresBut({"grants"})

\* NotificationService.notifyTransferRequest / notifyTransport, awaited in the try
notify(i) ==
  LET v == invs[i] IN
  /\ v.pc = "notify"
  /\ \/ NoFault /\ Put(i, Finish(v, "ok", ""))
     \/ Fault /\ Put(i, Catch(F(v), "notification"))
  /\ StoresBut({})

\* -------------------------------------------- registerTransferRequest
Statuses(C) == [c \in C |-> containers[c].status]

\* recipient = await findUserById(to); containers = await Promise.all(findContainerById);
\* then the status check
request_findContainers(i) ==
  LET v == invs[i]
      st == Statuses(v.cin)
      w == [v EXCEPT !.cs = v.cin, !.mem = st]
  IN
  /\ v.op = "registerTransferRequest" /\ v.pc = "load"
  /\ \/ /\ NoFault
        /\ Put(i, IF AllRecovered(st)
                  THEN [w EXCEPT !.pc = "create"]
                  ELSE Finish(w, "raised", "validation"))
     \/ Fault /\ Put(i, Finish(F(v), "raised", "lookup"))
  /\ StoresBut({})

\* await grantReadAndWritePermissionsToUser('Transaction', transaction.id, recipient);
\* then containers.map: container.set('status', TRANSFER_PENDING), grant, detail
request_grantTransaction(i) ==
  LET v == invs[i] IN
  /\ v.pc = "grantTx"
  /\ \/ /\ NoFault
        /\ grants' = grantReadAndWritePermissionsToUser("Transaction", v.tx, v.to)
        /\ Put(i, EnterTasks([v EXCEPT !.mem = [c \in v.cs |-> TRANSFER_PENDING],
                                       !.dirty = v.cs,
                                       !.issued = @ \cup {<<"Transaction", v.tx, v.to>>}],
                             [c \in v.cs |-> "grant"]))
     \/ /\ Fault
        /\ UNCHANGED grants
        /\ Put(i, Catch(F(v), "failure"))
  /\ StoresBut({"grants"})

\* --------------------------------------------------- registerTransport
\* findRecyclingCenterById, findContainerById on each, recoveredIds/transferredIds,
\* the status check, canTransportContainer on each
transport_findContainers(i) ==
  LET v == invs[i]
      st == Statuses(v.cin)
      w == [v EXCEPT !.cs = v.cin, !.mem = st,
                     !.recoveredIds = {c \in v.cin : st[c] = RECOVERED},
                     !.transferredIds = {c \in v.cin : st[c] = TRANSFERRED}]
  IN
  /\ v.op = "registerTransport" /\ v.pc = "load"
  /\ \/ /\ NoFault
        /\ Put(i, IF AllTransportable(st)
                  THEN [w EXCEPT !.pc = "create"]
                  ELSE Finish(w, "raised", "validation"))
     \/ Fault /\ Put(i, Finish(F(v), "raised", "lookup"))
  /\ StoresBut({})


\* --------------------------- registerTransferAccept / Reject / Cancel
Validate(v, t) ==
  IF v.op = "registerTransferCancel"
  THEN validateTransferCancelRequest(t, v.user)
  ELSE validateTransferAcceptRejectRequest(t, v.user)

\* transferRequestTransaction = await findRawTransaction(id, user); the validation
terminal_findRawTransaction(i) ==
  LET v == invs[i] IN
  /\ v.pc = "find"
  /\ \/ /\ NoFault
        /\ Put(i, IF ~Exists(v.rid) THEN Finish(v, "raised", "not found")
                  ELSE IF Validate(v, txs[v.rid]) # ""
                  THEN Finish(v, "raised", Validate(v, txs[v.rid]))
                  ELSE [v EXCEPT !.pc = "create", !.live = TRUE,
                                 !.reqFrom = txs[v.rid].from, !.reqTo = txs[v.rid].to])
     \/ Fault /\ Put(i, Finish(F(v), "raised", "lookup"))
  /\ StoresBut({})

\* A promise nobody awaits.
Pending(kind, v, c, u) == [k |-> kind, n |-> v.tx, c |-> c, u |-> u, f |-> v.reqFrom]

\* containers = await findContainersByTransaction(request); then containers.map:
\* container.set('status', TRANSFERRED) and
\* StockService.moveStock(type, from, to, 1).createTransactionDetail(...), which
\* throws a TypeError on the first container: moveStock has been called, the
\* promise it returned has no createTransactionDetail.
accept_findContainers(i) ==
  LET v == invs[i]
      C == findContainersByTransaction(v.rid)
  IN
  /\ v.op = "registerTransferAccept" /\ v.pc = "loadReq"
  /\ \/ /\ NoFault /\ C = {}
        /\ Put(i, Finish(v, "ok", ""))
        /\ txs' = Consume(txs, Finish(v, "ok", ""))
        /\ UNCHANGED bg
     \/ /\ NoFault
        /\ \E first \in C :
             /\ Put(i, Catch([v EXCEPT !.cs = C, !.pre = Statuses(C),
                                       !.mem = [Statuses(C) EXCEPT ![first] = TRANSFERRED],
                                       !.dirty = {first}], "TypeError"))
             /\ bg' = bg \cup {Pending("moveStock", v, first, v.reqTo)}
        /\ UNCHANGED txs
     \/ /\ Fault
        /\ Put(i, Catch(F(v), "failure"))
        /\ UNCHANGED <<txs, bg>>
  /\ StoresBut({"txs", "bg"})

\* containers = await findContainersByTransaction(request); then containers.map:
\* container.set('status', RECOVERED) and createTransactionDetail (reject), or
\* revoke then createTransactionDetail (cancel)
rejectCancel_findContainers(i) ==
  LET v == invs[i]
      C == findContainersByTransaction(v.rid)
      first == IF v.op = "registerTransferCancel" THEN "revoke" ELSE "detail"
  IN
  /\ v.op \in {"registerTransferReject", "registerTransferCancel"} /\ v.pc = "loadReq"
  /\ \/ /\ NoFault
        /\ LET v2 == EnterTasks([v EXCEPT !.cs = C, !.pre = Statuses(C),
                                          !.mem = [c \in C |-> RECOVERED], !.dirty = C],
                                [c \in C |-> first])
           IN Put(i, v2) /\ txs' = Consume(txs, v2)
     \/ /\ Fault
        /\ Put(i, Catch(F(v), "failure"))
        /\ UNCHANGED txs
  /\ StoresBut({"txs"})

\* ------------------------------------------------------- compensation
\* await destroyTransaction(transaction) at the head of a catch block
catch_destroyTransaction(i) ==
  LET v == invs[i] IN
  /\ v.pc = "c_destroy"
  /\ \/ /\ NoFault
        /\ txs' = destroyTransaction(v.tx)
        /\ Put(i, [v EXCEPT !.pc = IF v.op = "registerRecover" THEN "c_stock" ELSE "c_rollback"])
     \/ /\ Fault
        /\ UNCHANGED txs
        /\ Put(i, FinishRaw(v))
  /\ StoresBut({"txs"})

NoContainers(v) == {}

\* The containers and the status of the rollbackContainersToStatus call at v.pc.
RollbackSet(v) ==
  IF v.op = "registerTransport"
  THEN IF v.pc = "c_rollback" THEN v.recoveredIds ELSE v.transferredIds
  ELSE v.cs

RollbackStatus(v) ==
  IF v.op = "registerTransport"
  THEN IF v.pc = "c_rollback" THEN RECOVERED ELSE TRANSFERRED
  ELSE IF v.op = "registerTransferRequest" THEN RECOVERED
  ELSE TRANSFER_PENDING

\* applyFnToEach: a revoke (request) or a grant (cancel) that is not awaited
RollbackPromises(v) ==
  IF v.op = "registerTransferRequest"
  THEN {Pending("revoke", v, c, v.to) : c \in v.cs}
  ELSE IF v.op = "registerTransferCancel"
  THEN {Pending("grant", v, c, v.reqTo) : c \in v.cs}
  ELSE {}

\* rollbackContainersToStatus(containers, status): set and save each container
rollbackContainersToStatus(v, C, status) ==
  [v EXCEPT !.mem = [c \in DOMAIN v.mem |-> IF c \in C THEN status ELSE v.mem[c]],
            !.dirty = @ \ C,
            !.wrote = @ \cup Changed([c \in C |-> status])]

AfterRollback(v) ==
  IF v.op \in {"registerTransferReject", "registerTransferCancel"}
  THEN [v EXCEPT !.pc = "c_reqsave"]
  ELSE IF v.op = "registerTransport" /\ v.pc = "c_rollback"
  THEN [v EXCEPT !.pc = "c_rollbackT"]
  ELSE Finish(v, "raised", v.err)

catch_rollbackContainers(i) ==
  LET v == invs[i]
      C == RollbackSet(v)
      status == RollbackStatus(v)
  IN
  /\ v.pc \in {"c_rollback", "c_rollbackT"}
  /\ bg' = bg \cup RollbackPromises(v)
  /\ \/ /\ NoFault
        /\ containers' = Saved([c \in C |-> status])
        /\ Put(i, AfterRollback(rollbackContainersToStatus(v, C, status)))
     \/ /\ Fault
        /\ \E S \in (SUBSET C) \ {C} :
             /\ containers' = Saved([c \in S |-> status])
             /\ Put(i, FinishRaw(rollbackContainersToStatus(v, S, status)))
  /\ StoresBut({"containers", "bg"})

\* registerTransferAccept: await Promise.all([destroyTransaction(transaction),
\* rollbackContainersToStatus(containers, TRANSFER_PENDING)])
ParJoin(v) ==
  IF v.pc # "c_par" THEN v
  ELSE IF v.parD = "fail" \/ v.parR = "fail" THEN FinishRaw(v)
  ELSE IF v.parD = "ok" /\ v.parR = "ok" THEN [v EXCEPT !.pc = "c_reqsave"]
  ELSE v

accept_destroyTransaction(i) ==
  LET v == invs[i] IN
  /\ v.parD = "run"
  /\ \/ /\ NoFault
        /\ txs' = destroyTransaction(v.tx)
        /\ Put(i, ParJoin([v EXCEPT !.parD = "ok"]))
     \/ /\ Fault
        /\ UNCHANGED txs
        /\ Put(i, ParJoin([F(v) EXCEPT !.parD = "fail"]))
  /\ StoresBut({"txs"})

accept_rollbackContainers(i) ==
  LET v == invs[i] IN
  /\ v.parR = "run"
  /\ \/ /\ NoFault
        /\ containers' = Saved([c \in v.cs |-> TRANSFER_PENDING])
        /\ Put(i, ParJoin([rollbackContainersToStatus(v, v.cs, TRANSFER_PENDING)
                             EXCEPT !.parR = "ok"]))
     \/ /\ Fault
        /\ \E S \in (SUBSET v.cs) \ {v.cs} :
             /\ containers' = Saved([c \in S |-> TRANSFER_PENDING])
             /\ Put(i, ParJoin([F(rollbackContainersToStatus(v, S, TRANSFER_PENDING))
                                  EXCEPT !.parR = "fail"]))
  /\ StoresBut({"containers"})

\* transferRequestTransaction.unset('expiredAt'); await request.save(master key)
catch_saveRequest(i) ==
  LET v == invs[i] IN
  /\ v.pc = "c_reqsave"
  /\ \/ /\ NoFault
        /\ IF Exists(v.rid)
           THEN /\ txs' = [txs EXCEPT ![v.rid].expiredAt = FALSE]
                /\ Put(i, Finish([v EXCEPT !.reqExp = FALSE, !.reqDirty = FALSE], "raised", v.err))
           ELSE /\ UNCHANGED txs
                /\ Put(i, FinishRaw(v))
     \/ /\ Fault
        /\ UNCHANGED txs
        /\ Put(i, FinishRaw(v))
  /\ StoresBut({"txs"})

\* A promise nobody awaits settles: it takes effect, or fails unnoticed.
settle(p) ==
  /\ p \in bg
  /\ NoneOver
  /\ bg' = bg \ {p}
  /\ \/ /\ NoFault
        /\ grants' = IF p.k = "grant" THEN grantReadAndWritePermissionsToUser("Container", p.c, p.u)
                     ELSE IF p.k = "revoke" THEN revokeReadAndWritePermissionsToUser("Container", p.c, p.u)
                     ELSE grants
        /\ stock' = IF p.k = "moveStock"
                    THEN moveStock(stock, containers[p.c].type, p.f, p.u, 1)
                    ELSE stock
     \/ /\ Fault
        /\ UNCHANGED <<grants, stock>>
  /\ UNCHANGED <<containers, txs, details, invs, room>>

\* The caller has its result (the transaction or the error) and the invocation
\* is over: the references it held are dropped.
discard(i) ==
  /\ Over(invs[i])
  /\ invs' = [invs EXCEPT ![i] = Idle]
  /\ UNCHANGED <<containers, txs, details, stock, grants, bg, faultsLeft, room>>

\* ------------------------------------------------------- specification
\* The empty stores.
Fresh ==
  /\ containers = <<>>
  /\ txs = <<>>
  /\ details = {}
  /\ stock = [u \in Users |-> ZeroRow]
  /\ grants = {}
  /\ invs = [i \in Procs |-> Idle]
  /\ bg = {}

\* The stores after registerRecover([{typeId: plastic, qty: 1}], A) on the empty
\* stores: transaction 1, container 1, its detail, one unit of stock.
Recovered ==
  /\ containers = RecoverContainers(<<[typeId |-> "plastic", qty |-> 1]>>, 1, "A")
  /\ txs = <<createTransaction(RecoverAttributes([user |-> "A"]))>>
  /\ details = {<<1, 1>>}
  /\ stock = incrementStock([u \in Users |-> ZeroRow], "plastic", "A", 1)
  /\ grants = {}
  /\ invs = [i \in Procs |-> Idle]
  /\ bg = {}

\* The stores after registerTransferRequest({containers: [1], to: B}) by A on
\* the stores of Recovered: transaction 2, container 1 pending, B granted.
Requested ==
  /\ grants = {<<"Transaction", 2, "B">>, <<"Container", 1, "B">>}
  /\ containers = [RecoverContainers(<<[typeId |-> "plastic", qty |-> 1]>>, 1, "A")
                     EXCEPT ![1].status = TRANSFER_PENDING]
  /\ txs = <<createTransaction(RecoverAttributes([user |-> "A"])),
             [createTransaction(TransferRequestAttributes([user |-> "A", to |-> "B"]))
                EXCEPT !.g0 = {}]>>
  /\ details = {<<1, 1>>, <<2, 1>>}
  /\ stock = incrementStock([u \in Users |-> ZeroRow], "plastic", "A", 1)
  /\ invs = [i \in Procs |-> Idle]
  /\ bg = {}

Init ==
  /\ Fresh
  /\ faultsLeft = MaxFaults
  /\ room = [tx |-> MaxTx, containers |-> MaxContainers, awaits |-> TRUE]

InitSeq ==
  /\ Recovered
  /\ faultsLeft = SeqMaxFaults
  /\ room = [tx |-> SeqMaxTx, containers |-> SeqMaxContainers, awaits |-> TRUE]

InitConcurrent ==
  /\ Recovered
  /\ faultsLeft = ConcMaxFaults
  /\ room = [tx |-> ConcMaxTx, containers |-> ConcMaxContainers, awaits |-> FALSE]

InitRequested ==
  /\ Requested
  /\ faultsLeft = ReqMaxFaults
  /\ room = [tx |-> ReqMaxTx, containers |-> ReqMaxContainers, awaits |-> FALSE]

RecyclingCenters == {"center"}

\* The `to` of a transfer request: another user, or none given.
Recipients(u) == (Users \ {u}) \cup {NoUser}

\* findContainerById(id, user) reads with the caller's session: the containers
\* of an input are containers the caller created or was granted.
Readable(u) ==
  {c \in DOMAIN containers :
     containers[c].createdBy = u \/ <<"Container", c, u>> \in grants}

Starts ==
  \/ MayStart /\ \E lines \in RecoverInputs, u \in Users : registerRecover(lines, u)
  \/ MayStart /\ \E u \in Users : \E C \in SUBSET Readable(u), to \in Recipients(u) :
       registerTransferRequest(C, to, u)
  \/ MayStart /\ \E t \in DOMAIN txs, u \in Users : registerTransferAccept(t, u)
  \/ MayStart /\ \E t \in DOMAIN txs, u \in Users : registerTransferReject(t, u)
  \/ MayStart /\ \E t \in DOMAIN txs, u \in Users : registerTransferCancel(t, u)
  \/ MayStart /\ \E u \in Users : \E C \in SUBSET Readable(u), to \in RecyclingCenters \cup {NoUser} :
       registerTransport(C, to, u)

Steps ==
  \/ \E i \in Procs : recover_getUserStock(i)
  \/ \E i \in Procs : createTransaction_save(i)
  \/ \E i \in Procs : recover_createContainers(i)
  \/ \E i \in Procs : recover_createDetails(i)
  \/ \E i \in Procs, l \in 1 .. MaxLines : recover_incrementStock(i, l)
  \/ \E i \in Procs : recover_rollbackUserStock(i)
  \/ \E i \in Procs : request_findContainers(i)
  \/ \E i \in Procs : request_grantTransaction(i)
  \/ \E i \in Procs : transport_findContainers(i)
  \/ \E i \in Procs, c \in DOMAIN containers : task_grant(i, c)
  \/ \E i \in Procs, c \in DOMAIN containers : task_revoke(i, c)
  \/ \E i \in Procs, c \in DOMAIN containers : task_createTransactionDetail(i, c)
  \/ \E i \in Procs : notify(i)
  \/ \E i \in Procs : terminal_findRawTransaction(i)
  \/ \E i \in Procs : accept_findContainers(i)
  \/ \E i \in Procs : rejectCancel_findContainers(i)
  \/ \E i \in Procs : catch_destroyTransaction(i)
  \/ \E i \in Procs : catch_rollbackContainers(i)
  \/ \E i \in Procs : accept_destroyTransaction(i)
  \/ \E i \in Procs : accept_rollbackContainers(i)
  \/ \E i \in Procs : catch_saveRequest(i)
  \/ \E p \in bg : settle(p)
  \/ \E i \in Procs : discard(i)

Next == Starts \/ Steps

\* One caller that awaits each call, from the empty stores.
Spec == Init /\ [][Next]_vars

\* One caller that awaits each call, after a first recover.
SpecSeq == InitSeq /\ [][Next]_vars

\* Callers that do not wait for each other: up to MaxProcs invocations at a time.
SpecConcurrent == InitConcurrent /\ [][Next]_vars

\* Concurrent callers that find a pending transfer request of container 1
SpecRequested == InitRequested /\ [][Next]_vars

\* ------------------------------------------------------------ properties
Ended(v) == v.res # "none"

\* C1: accept, reject and cancel are mutually exclusive on a TRANSFER_REQUEST.
\* An invocation of one of the three that starts after one of them returned
\* success for the same request, and meets no collaborator failure, creates no
\* Transaction, changes no container status and ends raising 'expired'.
TerminalOperationsAreExclusive ==
  \A i \in Procs :
    LET v == invs[i] IN
    v.late /\ ~v.faulted =>
      /\ ~v.created
      /\ v.wrote = {}
      /\ Ended(v) => v.res = "raised" /\ v.err = "expired"

\* The requests that are live in the store: existing, never expired.
ActiveRequests(c) ==
  {t \in DOMAIN txs : /\ txs[t].exists
                       /\ txs[t].type = TRANSFER_REQUEST
                       /\ ~txs[t].expiredAt
                       /\ <<t, c>> \in details}

\* C2: in every reachable state each container is in the details of at most
\* one TRANSFER_REQUEST Transaction whose expiredAt is unset.
AtMostOneActiveRequestPerContainer ==
  \A c \in DOMAIN containers : Cardinality(ActiveRequests(c)) <= 1

NotRecovered(st) == \E c \in DOMAIN st : st[c] # RECOVERED

\* C4: a registerTransferRequest whose input holds a container that is not
\* RECOVERED creates no Transaction, changes no container status, issues no
\* grant, and ends raising.
RequestOfUnrecoveredFails ==
  \A i \in Procs :
    LET v == invs[i] IN
    v.op = "registerTransferRequest" /\ NotRecovered(v.pre) =>
      /\ ~v.created
      /\ v.wrote = {}
      /\ v.issued = {}
      /\ Ended(v) => v.res = "raised"

\* C4, its case: such a request has ended.
RequestOfUnrecoveredEnded ==
  \E i \in Procs :
    /\ invs[i].op = "registerTransferRequest"
    /\ NotRecovered(invs[i].pre)
    /\ Ended(invs[i])

\* The containers of type t among C.
OfType(C, t) == {c \in C : containers[c].type = t}

\* C5: registerTransferAccept by the recipient on a live TRANSFER_REQUEST with
\* at least one container, with no collaborator failure, returns success and
\* leaves a TRANSFER_ACCEPT Transaction with relatedTo = the request, every
\* container of the request TRANSFERRED, one unit of stock per container moved
\* from the request's from to its to, and the request's expiredAt set.
AcceptTransfersTheContainers ==
  \A i \in Procs :
    LET v == invs[i]
        C == findContainersByTransaction(v.rid)
    IN
    /\ v.op = "registerTransferAccept" /\ v.live /\ v.user = v.reqTo
    /\ C # {} /\ ~v.faulted /\ Ended(v)
    => /\ v.res = "ok"
       /\ Exists(v.tx)
       /\ txs[v.tx].type = TRANSFER_ACCEPT /\ txs[v.tx].relatedTo = v.rid
       /\ \A c \in C : containers[c].status = TRANSFERRED
       /\ \A t \in WasteTypes :
            /\ stock[v.reqTo][t] = v.stock0[v.reqTo][t] + Cardinality(OfType(C, t))
            /\ stock[v.reqFrom][t] = v.stock0[v.reqFrom][t] - Cardinality(OfType(C, t))
       /\ txs[v.rid].expiredAt

\* C6: a registerTransferCancel by the requester that returns success right
\* after the registerTransferRequest that created the request, in a run where
\* no collaborator has failed, leaves every container of the request RECOVERED
\* and the grants equal to the grants before the request.
RequestThenCancelRestores ==
  \A i \in Procs :
    LET v == invs[i] IN
    /\ v.op = "registerTransferCancel" /\ v.res = "ok" /\ v.user = v.reqFrom
    /\ v.tx = v.rid + 1 /\ faultsLeft = MaxFaults
    => /\ \A c \in findContainersByTransaction(v.rid) : containers[c].status = RECOVERED
       /\ grants = txs[v.rid].g0

\* What the failure left behind, for each container registerTransport flipped.
Flipped(v) == {c \in v.cs : <<c, v.pre[c], IN_TRANSIT>> \in v.fwd}

FailedMidway(v) ==
  /\ v.op = "registerTransport" /\ v.res = "raised"
  /\ Flipped(v) # {}
  /\ \E c \in v.cs : v.task[c] # "ok"

Restored(v) ==
  /\ \A c \in v.cs : containers[c].status = v.pre[c]
  /\ ~Exists(v.tx)

Batch(t) == {c \in DOMAIN containers : containers[c].batchNumber = t}

\* C8: when a registerRecover has returned, the requester's stock of each input
\* waste type is the stock at the call plus the requested quantity, that many
\* containers of the type exist tagged with the Transaction's number, all
\* RECOVERED, and the Transaction has type RECOVER and one detail per created
\* container.
RecoverAddsTheRequestedQuantity ==
  \A i \in Procs :
    LET v == invs[i] IN
    v.op = "registerRecover" /\ v.res = "ok" =>
      /\ \A l \in 1 .. Len(v.lines) :
           /\ stock[v.user][v.lines[l].typeId]
                = v.stock0[v.user][v.lines[l].typeId] + v.lines[l].qty
           /\ Cardinality(OfType(Batch(v.tx), v.lines[l].typeId)) = v.lines[l].qty
      /\ \A c \in Batch(v.tx) : containers[c].status = RECOVERED
      /\ Exists(v.tx) /\ txs[v.tx].type = RECOVER
      /\ findContainersByTransaction(v.tx) = Batch(v.tx)

\* C8, its case: a registerRecover of two waste types has returned.
RecoverOfTwoTypesReturned ==
  \E i \in Procs :
    /\ invs[i].op = "registerRecover" /\ invs[i].res = "ok"
    /\ Len(invs[i].lines) = 2

\* C9: every stock counter is non-negative in every reachable state.
StockNeverNegative ==
  \A u \in Users, t \in WasteTypes : stock[u][t] >= 0

\* The status changes of the section 4 state machine, per workflow.
Gated(op, old, new) ==
  \/ op = "registerTransferRequest" /\ old = RECOVERED /\ new = TRANSFER_PENDING
  \/ op = "registerTransferAccept" /\ old = TRANSFER_PENDING /\ new = TRANSFERRED
  \/ /\ op \in {"registerTransferReject", "registerTransferCancel"}
     /\ old = TRANSFER_PENDING /\ new = RECOVERED
  \/ op = "registerTransport" /\ old \in {RECOVERED, TRANSFERRED} /\ new = IN_TRANSIT

\* The step is a step of invocation i, and changes c as i's workflow may, or
\* takes back a change i made before.
GatedChange(i, c) ==
  /\ invs[i]' # invs[i]
  /\ \/ Gated(invs[i].op, containers[c].status, containers[c].status')
     \/ <<c, containers[c].status', containers[c].status>> \in invs[i].fwd

\* C10: every change of a stored container's status is a change of the state
\* machine made by the workflow it belongs to, or the exact reversal of such a
\* change by the compensation of the invocation that made it.
StatusChangesAreGated ==
  [][\A c \in DOMAIN containers :
       containers[c].status' # containers[c].status => \E i \in Procs : GatedChange(i, c)]_vars

\* The party of request t that may call op on it.
Party(op, t) == IF op = "registerTransferCancel" THEN txs[t].from ELSE txs[t].to

WrongRequester(v) ==
  /\ v.op \in TerminalOps
  /\ Exists(v.rid) /\ txs[v.rid].type = TRANSFER_REQUEST
  /\ v.user # Party(v.op, v.rid)

\* C11: an accept or reject by another user than the request's to, or a cancel
\* by another user than its from, creates no Transaction, does not set the
\* request's expiredAt, changes no container status, stock counter or grant,
\* and ends raising.
RequesterGatesTerminalOperations ==
  \A i \in Procs :
    LET v == invs[i] IN
    WrongRequester(v) =>
      /\ ~v.created /\ ~v.reqDirty /\ ~v.reqExp
      /\ v.wrote = {} /\ v.issued = {}
      /\ stock = v.stock0
      /\ bg = {}
      /\ Ended(v) => v.res = "raised"

\* C11, its case: such a call has ended, on a request that is still live.
WrongRequesterEnded ==
  \E i \in Procs :
    /\ WrongRequester(invs[i]) /\ Ended(invs[i])
    /\ ~txs[invs[i].rid].expiredAt

\* The status a workflow gives the containers it is called with.
NewStatus(op) == IF op = "registerTransport" THEN IN_TRANSIT ELSE TRANSFER_PENDING

\* C12: when the notifier fails after every forward step of a request or a
\* transport succeeded, no compensation runs and the call returns success: the
\* Transaction remains and the containers keep their new status.
NotifierFailureIsNotPropagated ==
  \A i \in Procs :
    LET v == invs[i] IN
    v.err = "notification" =>
      /\ v.pc = "done" /\ v.res = "ok"
      /\ Exists(v.tx)
      /\ \A c \in v.cs : containers[c].status = NewStatus(v.op)

\* C13: a call that raises raises the wrapped failure of its forward path,
\* with that failure's cause: never the error of a compensation step, which
\* would also mean that the catch block stopped at that step.
FailuresReachTheCallerWrapped ==
  \A i \in Procs :
    LET v == invs[i] IN
    v.res = "raised" => v.err # "" /\ ~v.compFailed

\* A step of invocation i taken while it has created no Transaction.
StepBeforeCreation(i) ==
  /\ invs'[i] # invs[i]
  /\ ~invs[i].created /\ ~invs'[i].created

\* C14: an invocation that fails before its Transaction is created writes to
\* no store: none of its steps changes a container, a stock counter, a grant,
\* a Transaction or a detail.
NoWriteBeforeCreation ==
  [][\A i \in Procs :
       StepBeforeCreation(i) => UNCHANGED <<containers, txs, details, stock, grants>>]_vars

\* C15: a registerTransferRequest of RECOVERED containers by A to B that
\* returned has left every container TRANSFER_PENDING, a TRANSFER_REQUEST
\* Transaction from A to B with expiredAt unset, a detail for each container
\* and for no other, and B granted on the Transaction and on every container.
SuccessfulRequestPostcondition ==
  \A i \in Procs :
    LET v == invs[i] IN
    v.op = "registerTransferRequest" /\ v.res = "ok" =>
      /\ \A c \in v.cs : v.pre[c] = RECOVERED
      /\ \A c \in v.cs : containers[c].status = TRANSFER_PENDING
      /\ Exists(v.tx)
      /\ txs[v.tx].type = TRANSFER_REQUEST
      /\ txs[v.tx].from = v.user /\ txs[v.tx].to = v.to
      /\ ~txs[v.tx].expiredAt
      /\ findContainersByTransaction(v.tx) = v.cs
      /\ <<"Transaction", v.tx, v.to>> \in grants
      /\ \A c \in v.cs : <<"Container", c, v.to>> \in grants

\* C15, its case: a request of at least one container has returned.
RequestReturned ==
  \E i \in Procs :
    /\ invs[i].op = "registerTransferRequest" /\ invs[i].res = "ok"
    /\ invs[i].cs # {}

\* An invocation of op that created its Transaction, failed, ran its catch
\* block to the end and raised.
RaisedAfterCreation(v, op) ==
  v.op = op /\ v.created /\ v.res = "raised" /\ ~v.compFailed

\* C16: once a registerTransferAccept that created its Transaction has raised
\* (here: with no failure inside its catch block), no accept Transaction
\* remains, every container of the request is TRANSFER_PENDING, the request's
\* expiredAt is unset and the stock counters are those before the call.
AcceptFailureRestores ==
  \A i \in Procs :
    LET v == invs[i] IN
    RaisedAfterCreation(v, "registerTransferAccept") =>
      /\ ~Exists(v.tx)
      /\ \A c \in findContainersByTransaction(v.rid) :
           containers[c].status = TRANSFER_PENDING
      /\ ~txs[v.rid].expiredAt
      /\ stock = v.stock0

\* C17: once a registerTransferReject or registerTransferCancel that created
\* its Transaction has raised (here: with no failure inside its catch block,
\* and when every promise it left behind has settled), that Transaction no
\* longer exists, every container of the request is
\* TRANSFER_PENDING, the request's expiredAt is unset and, for cancel, the
\* recipient holds the grant on every container of the request.
RejectCancelFailureRestores ==
  \A i \in Procs :
    LET v == invs[i]
        C == findContainersByTransaction(v.rid)
    IN
    /\ \/ RaisedAfterCreation(v, "registerTransferReject")
       \/ RaisedAfterCreation(v, "registerTransferCancel")
    /\ ~Running(v) /\ bg = {}
    => /\ ~Exists(v.tx)
       /\ \A c \in C : containers[c].status = TRANSFER_PENDING
       /\ ~txs[v.rid].expiredAt
       /\ v.op = "registerTransferCancel" =>
            \A c \in C : <<"Container", c, v.reqTo>> \in grants

\* C18: once a registerRecover that created its Transaction has raised (here:
\* with no failure inside its catch block), the Transaction is destroyed and
\* every stock counter of the requester is what it was at the start of the call.
RecoverFailureRestores ==
  \A i \in Procs :
    LET v == invs[i] IN
    RaisedAfterCreation(v, "registerRecover") =>
      /\ ~Exists(v.tx)
      /\ stock[v.user] = v.stock0[v.user]

\* The catch block of the invocation has been entered.
InCompensation(v) ==
  \/ v.pc \in {"c_destroy", "c_par", "c_rollback", "c_rollbackT", "c_stock", "c_reqsave"}
  \/ v.res = "raised"

\* A per-container (or per-line) forward promise of invocation i moves on.
ForwardStep(i) ==
  /\ DOMAIN invs'[i].task = DOMAIN invs[i].task
  /\ \E k \in DOMAIN invs[i].task : invs'[i].task[k] # invs[i].task[k]

\* C19: the forward steps of a stage are joined before compensation starts: no
\* forward step of an invocation writes a grant, a detail, a container status
\* or a stock counter once that invocation's catch block has been entered.
ForwardStepsAreJoined ==
  [][\A i \in Procs :
       InCompensation(invs[i]) /\ ForwardStep(i) =>
         UNCHANGED <<containers, txs, details, stock, grants>>]_vars

TransactionTypes ==
  {RECOVER, TRANSFER_REQUEST, TRANSFER_ACCEPT, TRANSFER_REJECT, TRANSFER_CANCEL, TRANSPORT}

\* The type the specification gives the Transaction of each workflow.
TypeOf(op) ==
  CASE op = "registerRecover" -> RECOVER
    [] op = "registerTransferRequest" -> TRANSFER_REQUEST
    [] op = "registerTransferAccept" -> TRANSFER_ACCEPT
    [] op = "registerTransferReject" -> TRANSFER_REJECT
    [] op = "registerTransferCancel" -> TRANSFER_CANCEL
    [] op = "registerTransport" -> TRANSPORT

\* C20: every stored Transaction has one of the six types, the one of the
\* workflow that created it; a registerTransferCancel that returned has stored
\* a TRANSFER_CANCEL Transaction with the request's from and to and with
\* relatedTo = the request.
TransactionTypesMatchTheWorkflow ==
  /\ \A t \in DOMAIN txs : txs[t].exists => txs[t].type \in TransactionTypes
  /\ \A i \in Procs :
       LET v == invs[i] IN
       /\ v.created /\ Exists(v.tx) => txs[v.tx].type = TypeOf(v.op)
       /\ v.op = "registerTransferCancel" /\ v.res = "ok" =>
            /\ Exists(v.tx)
            /\ txs[v.tx].type = TRANSFER_CANCEL
            /\ txs[v.tx].from = txs[v.rid].from
            /\ txs[v.tx].to = txs[v.rid].to
            /\ txs[v.tx].relatedTo = v.rid

\* A step of an accept, reject or cancel on a stored request that a successful
\* accept, reject or cancel has already consumed.
StepOnConsumed(i) ==
  /\ invs[i].op \in TerminalOps
  /\ invs'[i] # invs[i]
  /\ Exists(invs[i].rid) /\ txs[invs[i].rid].consumed

\* C21: once an accept, reject or cancel of request R has returned, no other
\* accept, reject or cancel of R clears R's expiredAt or puts a container of R
\* back to TRANSFER_PENDING, its compensation included.
ConsumptionIsStable ==
  [][\A i \in Procs :
       StepOnConsumed(i) =>
         LET R == invs[i].rid IN
         /\ txs[R].expiredAt => txs'[R].expiredAt
         /\ \A c \in findContainersByTransaction(R) :
              containers'[c].status = TRANSFER_PENDING =>
                containers[c].status = TRANSFER_PENDING]_vars

\* The containers of type t in the details of the stored RECOVER transactions
\* of user u: the units the recovers of u that returned have added.
RecoveredUnits(u, t) ==
  {c \in DOMAIN containers :
     /\ containers[c].type = t
     /\ \E k \in DOMAIN txs :
          /\ txs[k].exists /\ txs[k].type = RECOVER /\ txs[k].to = u
          /\ <<k, c>> \in details}

\* No workflow but registerRecover has left a Transaction, and a second
\* recover has returned.
OnlyRecovers ==
  /\ \A k \in DOMAIN txs : txs[k].exists => txs[k].type = RECOVER
  /\ Cardinality({k \in DOMAIN txs : txs[k].exists}) >= 2

\* C22: stock rollback loses no concurrent update. When only recovers have
\* run, and a one-line registerRecover of a user has failed, compensated and
\* raised with nothing else in progress, each stock counter of that user
\* counts the units of the recovers that returned: the q units of a recover
\* that succeeded meanwhile are still there.
StockRollbackKeepsConcurrentUpdates ==
  \A i \in Procs :
    LET v == invs[i] IN
    /\ v.op = "registerRecover" /\ Len(v.lines) = 1
    /\ v.res = "raised" /\ ~v.compFailed /\ ~Running(v)
    /\ \A j \in Procs \ {i} : invs[j] = Idle
    /\ bg = {}
    /\ OnlyRecovers
    => \A t \in WasteTypes :
         stock[v.user][t] = Cardinality(RecoveredUnits(v.user, t))

ContainerGrants(G) == {g \in G : g[1] = "Container"}

\* C23: when a registerTransferReject has returned (here: no collaborator
\* having failed so far), the recipient holds no grant on a container of the
\* request: the container grants are those from before the request.
RejectRevokesTheGrants ==
  \A i \in Procs :
    LET v == invs[i] IN
    /\ v.op = "registerTransferReject" /\ v.res = "ok" /\ Exists(v.rid)
    /\ faultsLeft = MaxFaults
    =>
      /\ \A c \in findContainersByTransaction(v.rid) :
           <<"Container", c, txs[v.rid].to>> \notin grants
      /\ ContainerGrants(grants) = ContainerGrants(txs[v.rid].g0)

====
